---- MODULE Spec2Model ----
(***************************************************************************)
(* The dependency-gated orchestration helper EffectFlowBase                *)
(* (skipIfLoaded, then, waitForTruthy) of architecture-guide.md, driven by *)
(* the documented pipeline BazFeatureEffects.loadBazData$, as a state      *)
(* machine over the NgRx store and action stream.                          *)
(*                                                                         *)
(* One step of the machine is one JavaScript task: the store reducing and  *)
(* delivering one action (state first, then the action stream), or the     *)
(* completion of one asynchronous operation.                               *)
(***************************************************************************)
EXTENDS Integers, Sequences, FiniteSets, TLC

VARIABLES
  store,     \* the State Container: the current value of every read view
  cfg,       \* the configuration object handed to then(cfg)
  flows,     \* the flows (subscriptions to then(cfg)) of the effect: those
             \* still alive and, until the next one is created, the completed
             \* ones, in creation order
  queue,     \* outcome actions dispatched by the effect, not yet reduced
  guard,     \* the effect's pipeline in the latest step: the actions that
             \* entered skipIfLoaded (in), those it passed on (out) and those
             \* for which exhaustMap subscribed a new flow (projected)
  effect,    \* the subscription to loadBazData$: "subscribed", "unsubscribed"
             \* (torn down) or "errored" (ended by an error of the stream)
  adapter,   \* the keys (params) the route adapter was built with by
             \* dispatchWithParams(action, params)
  invocation, \* the arguments of the router's call of the adapter (<<>>: not
             \* called)
  bus,       \* the actions the adapter has dispatched to the Store
  factory,   \* the payloads the adapter has called the action creator with
  returned,  \* how the call ended: not yet, a return value, a thrown error
  fooState,  \* the state of the feature 'foo' in the Store (FooState)
  searchTextS, \* FooSidebarComponent's signal of the search text
  expandedS, \* FooSidebarComponent's signal of the sidebar being expanded
  vm,        \* the value of the computed view model signal
  dispatched, \* the actions the component dispatched in its latest call
  called     \* the latest call on the component or the Store (<<>>: none)

routeVars == <<adapter, invocation, bus, factory, returned>>

sidebarVars == <<fooState, searchTextS, expandedS, vm, dispatched, called>>

vars == <<store, cfg, flows, queue, guard, effect, routeVars, sidebarVars>>

----------------------------------------------------------------------------
\* JavaScript values, encoded as strings.

Falsy == {"undefined", "null", "false", "zero", "empty", "NaN"}

\* A faulty variant of isTruthy (an empty collection counts as not ready)
isTruthyNonEmpty(v) == v \notin Falsy \cup {"[]"}

\* function isTruthy<T>(v: T): boolean { return !!v; }
isTruthy(v) == v \notin Falsy

\* Values the read views take in the model.
LoadedVals == {"undefined", "null", "false", "true"}
FooVals == {"undefined", "A", "B"}
BarVals == {"undefined", "C"}

AllStores == [selectBazLoaded : LoadedVals, selectFoos : FooVals, selectBar : BarVals]

\* store.select(selector): the selector's value in a given state.
select(s, selector) == s[selector]

----------------------------------------------------------------------------
\* Actions (Domain Events).

Action(kind, payload) == [kind |-> kind, payload |-> payload]
NoAction == Action("none", "none")

\* ofType(BazActions.entered, FooActions.loadFooDataSuccess)
Triggers == <<"entered", "loadFooDataSuccess">>
\* actions of the application the effect is wired to, plus an unrelated one
ExternalKinds == {"entered", "loadFooDataSuccess", "loadFooDataFailure",
                  "fooCancelled", "updateFooInput"}

Results == {"r1", "r2"}
Errors == {"e1"}

\* onSuccess: (bazData) => BazActions.loadBazDataSuccess({ bazData })
onSuccess(result) == Action("loadBazDataSuccess", result)
\* onError: (error) => BazActions.loadBazDataFailure({ error })
onError(error) == Action("loadBazDataFailure", error)
\* abortWith: BazActions.loadBazDataAbort
abortWith == Action("loadBazDataAbort", "none")

\* ofType(...creators): does the action match one of the creators?
ofType(a, creators) == \E i \in 1..Len(creators) : creators[i] = a.kind

----------------------------------------------------------------------------
\* Configurations of then(cfg): waitForTruthy is one selector or an array of
\* selectors, abortOn one action creator or an array of them.

WaitCfgs == { [isArray |-> FALSE, sels |-> <<"selectFoos">>],
              [isArray |-> TRUE,  sels |-> <<"selectFoos", "selectBar">>] }
AbortCfgs == { [isArray |-> FALSE, kinds |-> <<"loadFooDataFailure">>],
               [isArray |-> TRUE,  kinds |-> <<"loadFooDataFailure", "fooCancelled">>] }
Cfgs == [waitForTruthy : WaitCfgs, abortOn : AbortCfgs]

\* The states of the store under configuration c: a view no selector of the
\* configuration reads is left out of the model (it stays "undefined").
Stores(c) ==
  {s \in AllStores : c.waitForTruthy.isArray \/ s.selectBar = "undefined"}

\* A faulty variant of abortCreators (of an array only the first creator is watched)
abortCreatorsFirstOnly(c) == <<c.abortOn.kinds[1]>>

\* const abortCreators = Array.isArray(cfg.abortOn) ? cfg.abortOn : [cfg.abortOn];
abortCreators(c) == c.abortOn.kinds

----------------------------------------------------------------------------
\* A faulty variant of skipIfLoaded (the filter is missing)
skipIfLoadedNoFilter(actions, s, loadedSelector) == actions

\* A faulty variant of skipIfLoaded (the flag is the one sampled before the action
\* was reduced, not the one current when it arrives)
skipIfLoadedStale(actions, s, loadedSelector) ==
  SelectSeq(actions, LAMBDA a : ~isTruthy(select(store, loadedSelector)))

\* skipIfLoaded: concatLatestFrom(store.select(loadedSelector)),
\* filter(([, loaded]) => !loaded), map(([action]) => action).
\* `s` is the state current when the action arrives.
skipIfLoaded(actions, s, loadedSelector) ==
  SelectSeq(actions, LAMBDA a : ~isTruthy(select(s, loadedSelector)))

\* A faulty variant of exhaustMap (every source value is projected, as mergeMap
\* does)
exhaustMapMerge(actions, innerActive) == actions

\* exhaustMap: a source value is projected only while no inner flow is active.
exhaustMap(actions, innerActive) == IF innerActive THEN <<>> ELSE actions

----------------------------------------------------------------------------
\* waitForTruthy.  A notification is [isArray, vals]: the value itself
\* (single selector) or the array of values (array of selectors).

Notification(isArray, vals) == [isArray |-> isArray, vals |-> vals]
NoPrereq == Notification(FALSE, <<>>)

every(vals) == \A i \in 1..Len(vals) : isTruthy(vals[i])

\* A faulty variant of waitForTruthySubscribe (the current value is not replayed)
waitForTruthySubscribeNoReplay(w, s) == <<>>

\* Emissions at subscription: every store.select replays the current value;
\* combineLatest emits once each stream has produced its first value.
waitForTruthySubscribe(w, s) ==
  LET vals == [i \in 1..Len(w.sels) |-> select(s, w.sels[i])]
  IN  IF w.isArray
      THEN IF every(vals) THEN <<Notification(TRUE, vals)>> ELSE <<>>
      ELSE IF isTruthy(vals[1]) THEN <<Notification(FALSE, vals)>> ELSE <<>>

\* Emissions when the store goes from state `old` to state `new`.  Each
\* store.select is its own subscription to the state subject and emits only
\* when its value changed (distinctUntilChanged); the subscriptions are
\* notified one after the other, in the order of the selectors, and
\* combineLatest emits after each of them with the latest value it holds of
\* every stream.
waitForTruthyChange(w, old, new) ==
  LET n == Len(w.sels)
      changed(i) == select(new, w.sels[i]) # select(old, w.sels[i])
      latest(i) == [j \in 1..n |-> IF j <= i THEN select(new, w.sels[j])
                                             ELSE select(old, w.sels[j])]
      idx == SelectSeq([i \in 1..n |-> i], changed)
      combos == [k \in 1..Len(idx) |-> latest(idx[k])]
  IN  IF w.isArray
      THEN LET pass == SelectSeq(combos, every)
           IN  [k \in 1..Len(pass) |-> Notification(TRUE, pass[k])]
      ELSE IF changed(1) /\ isTruthy(select(new, w.sels[1]))
           THEN <<Notification(FALSE, <<select(new, w.sels[1])>>)>>
           ELSE <<>>

\* A faulty variant of take1 (take(1) is missing)
take1Missing(seen, ems) == [out |-> ems, complete |-> FALSE]

\* take(1) in prereq$: `seen` notifications were passed on before; of the new
\* ones the first is passed on and the subscription completes.
take1(seen, ems) ==
  IF seen >= 1 THEN [out |-> <<>>, complete |-> TRUE]
  ELSE IF ems = <<>> THEN [out |-> <<>>, complete |-> FALSE]
  ELSE [out |-> <<ems[1]>>, complete |-> TRUE]

----------------------------------------------------------------------------
\* A flow: one subscription to the observable returned by then(cfg), that is
\* race(abort$, run$).
\*   abortSub   abort$ (actions$ | ofType | take(1)) is subscribed
\*   waitSub    prereq$ is subscribed to the store
\*   seen       notifications take(1) has passed on to switchMap
\*   thenCalls  invocations of cfg.then
\*   prereq     the argument of the latest invocation of cfg.then
\*   op         the asynchronous operation returned by cfg.then:
\*              "idle" (not invoked), "inflight", "succeeded", "failed",
\*              "cancelled" (unsubscribed before it produced anything)
\*   outcomes   the actions the flow has emitted
\*   done       the flow has ended: its observable has completed or its
\*              subscription was released

\* switchMap((prereq) => cfg.then(prereq).pipe(map(onSuccess), catchError(..))):
\* every notification invokes cfg.then and replaces the inner subscription.
switchMapThen(f, outs) ==
  IF outs = <<>> THEN f
  ELSE [f EXCEPT !.thenCalls = @ + Len(outs),
                 !.prereq = outs[Len(outs)],
                 !.op = "inflight"]

\* prereq$ / run$ reacting to the emissions `ems` of waitForTruthy.
runPrereq(f, ems) ==
  LET t == take1(f.seen, ems)
  IN  switchMapThen([f EXCEPT !.waitSub = ~t.complete, !.seen = @ + Len(t.out)],
                    t.out)

\* A faulty variant of subscribeThen (actions$ replays to a new subscriber the
\* abort action an earlier flow has observed)
subscribeThenReplayAbort(s) ==
  LET f == runPrereq([abortSub |-> TRUE, waitSub |-> TRUE, seen |-> 0,
                      thenCalls |-> 0, prereq |-> NoPrereq, op |-> "idle",
                      outcomes |-> <<>>, done |-> FALSE],
                     waitForTruthySubscribe(cfg.waitForTruthy, s))
  IN  IF \E i \in 1..Len(flows) : \E k \in 1..Len(flows[i].outcomes) :
            flows[i].outcomes[k] = Action("loadBazDataAbort", "none")
      THEN [f EXCEPT !.abortSub = FALSE, !.waitSub = FALSE,
                     !.op = IF @ = "inflight" THEN "cancelled" ELSE @,
                     !.outcomes = Append(@, Action("loadBazDataAbort", "none")),
                     !.done = TRUE]
      ELSE f

\* then(cfg) being subscribed in state s: race subscribes abort$, then run$,
\* whose store.select replays the current value at once.
subscribeThen(s) ==
  runPrereq([abortSub |-> TRUE, waitSub |-> TRUE, seen |-> 0, thenCalls |-> 0,
             prereq |-> NoPrereq, op |-> "idle", outcomes |-> <<>>, done |-> FALSE],
            waitForTruthySubscribe(cfg.waitForTruthy, s))

\* A faulty variant of onState (the waiter looks at the loaded view again and
\* stays silent when the feature has become loaded)
onStateRecheck(f, old, new) ==
  IF f.waitSub /\ ~isTruthy(select(new, "selectBazLoaded"))
  THEN runPrereq(f, waitForTruthyChange(cfg.waitForTruthy, old, new))
  ELSE f

\* The store emits state `new` after `old`: the flow's waiter is notified.
onState(f, old, new) ==
  IF f.waitSub
  THEN runPrereq(f, waitForTruthyChange(cfg.waitForTruthy, old, new))
  ELSE f

\* A faulty variant of raceAbortWins (run$ is left subscribed when abort$ wins)
raceAbortWinsLeak(f) ==
  [f EXCEPT !.abortSub = FALSE,
            !.outcomes = Append(@, abortWith),
            !.done = TRUE]

\* A faulty variant of raceAbortWins (abort$ without take(1) stays subscribed)
raceAbortWinsNoTake(f) ==
  [f EXCEPT !.waitSub = FALSE,
            !.op = IF @ = "inflight" THEN "cancelled" ELSE @,
            !.outcomes = Append(@, abortWith),
            !.done = TRUE]

\* race: abort$ emitted first.  The other source, run$, is unsubscribed (the
\* waiter and a pending asynchronous operation with it); abort$ completes
\* after its one value and the flow with it.
raceAbortWins(f) ==
  [f EXCEPT !.abortSub = FALSE,
            !.waitSub = FALSE,
            !.op = IF @ = "inflight" THEN "cancelled" ELSE @,
            !.outcomes = Append(@, abortWith),
            !.done = TRUE]

\* A faulty variant of raceRunWins (no catchError, a failure is not mapped to an
\* outcome action)
raceRunWinsNoCatch(f, outcome, opState) ==
  [f EXCEPT !.abortSub = FALSE,
            !.op = opState,
            !.outcomes = IF opState = "failed" THEN @ ELSE Append(@, outcome),
            !.done = TRUE]

\* race: run$ emitted first (the operation produced `outcome`).  abort$ is
\* unsubscribed; the operation completes after its one value, and the flow
\* with it.
raceRunWins(f, outcome, opState) ==
  [f EXCEPT !.abortSub = FALSE,
            !.op = opState,
            !.outcomes = Append(@, outcome),
            !.done = TRUE]

\* abort$: an action is delivered on actions$ to the flow's abort watcher.
onAction(f, a) ==
  IF f.abortSub /\ ofType(a, abortCreators(cfg)) THEN raceAbortWins(f) ELSE f

\* A faulty variant of unsubscribe (the abort watcher is left subscribed)
unsubscribeLeak(f) ==
  [f EXCEPT !.waitSub = FALSE,
            !.op = IF @ = "inflight" THEN "cancelled" ELSE @,
            !.done = TRUE]

\* The subscription to race(abort$, run$) is released: race unsubscribes
\* both sources, run$ its waiter and a pending asynchronous operation.
unsubscribe(f) ==
  [f EXCEPT !.abortSub = FALSE,
            !.waitSub = FALSE,
            !.op = IF @ = "inflight" THEN "cancelled" ELSE @,
            !.done = TRUE]

----------------------------------------------------------------------------
\* The route-parameter dispatcher (core/utils/route-utils.ts).

\* The longest path from the root to the activated route.
MaxDepth == 3

\* RouteParam.ID, RouteParam.SECTION_ID
RouteKeys == {"id", "sectionId"}
\* The values of a route parameter; "null" is what paramMap.get returns for
\* a parameter the segment does not define, "" an empty parameter.
ParamVals == {"", "7"}
ParamMaps == [RouteKeys -> ParamVals \cup {"null"}]

\* ActivatedRouteSnapshot: pathFromRoot, each element with its paramMap.
Routes ==
  UNION {[pathFromRoot : [1..n -> ParamMaps]] : n \in 1..MaxDepth}

\* The params dispatchWithParams is given.
ParamLists == { <<>>, <<"id">>, <<"sectionId", "id">>, <<"id", "sectionId">> }

\* The arguments the router passes: resolver (route), canActivate (route,
\* state), canDeactivate (component, currentRoute, currentState, nextState).
Args ==
  UNION { {<<r>>, <<r, "state">>, <<"component", r, "state", "nextState">>}
          : r \in Routes }

NoResult == [kind |-> "none", value |-> "none"]
Returned(v) == [kind |-> "returned", value |-> v]
Threw(key) == [kind |-> "threw", value |-> key]

\* A faulty variant of getParamFromSelfOrParents (the scan starts at the root)
getParamFromRootDown(route, key) ==
  LET path == route.pathFromRoot
      def == {i \in 1..Len(path) : path[i][key] # "null"}
  IN  IF def = {} THEN "null"
      ELSE path[CHOOSE i \in def : \A j \in def : i <= j][key]

\* for (let i = route.pathFromRoot.length - 1; i >= 0; i--) { ... }
RECURSIVE scanUp(_, _, _)
scanUp(path, key, i) ==
  IF i < 1 THEN "null"
  ELSE LET v == path[i][key]
       IN  IF v # "null" THEN v ELSE scanUp(path, key, i - 1)

getParamFromSelfOrParents(route, key) ==
  scanUp(route.pathFromRoot, key, Len(route.pathFromRoot))

\* A faulty variant of routeOf (the first argument is taken for the route in every
\* convention; the component of canDeactivate has no route parameters)
routeOfFirst(args) ==
  IF Len(args) = 4 THEN [pathFromRoot |-> <<>>] ELSE args[1]

\* args.length === 4 ? args[1] : args[0]  (indices from 0 in the source)
routeOf(args) == IF Len(args) = 4 THEN args[2] ELSE args[1]

\* params.map((k) => [k, getParamFromSelfOrParents(route, k)])
entriesOf(params, route) ==
  [i \in 1..Len(params) |-> <<params[i], getParamFromSelfOrParents(route, params[i])>>]

\* Object.fromEntries(entries): the object with the entries' keys, each with
\* the value of its last entry.
fromEntries(entries) ==
  [k \in {entries[i][1] : i \in 1..Len(entries)} |->
     LET at == {i \in 1..Len(entries) : entries[i][1] = k}
     IN  entries[CHOOSE i \in at : \A j \in at : j <= i][2]]

\* A faulty variant of dispatchWithParams (a missing parameter is put into the
\* payload as null instead of being thrown)
dispatchWithParamsNullPayload(params, args) ==
  LET route == routeOf(args)
      payload == fromEntries(entriesOf(params, route))
  IN  [created |-> <<payload>>, dispatched |-> <<Action("entered", payload)>>,
       result |-> Returned("true")]

\* A faulty variant of dispatchWithParams (the action is built, not dispatched)
dispatchWithParamsNoDispatch(params, args) ==
  LET route == routeOf(args)
      missing == SelectSeq(params,
                   LAMBDA k : getParamFromSelfOrParents(route, k) = "null")
      payload == fromEntries(entriesOf(params, route))
  IN  IF missing # <<>>
      THEN [created |-> <<>>, dispatched |-> <<>>, result |-> Threw(Head(missing))]
      ELSE [created |-> <<payload>>, dispatched |-> <<>>,
            result |-> Returned("true")]

\* A faulty variant of dispatchWithParams (the keys are resolved one by one and
\* the action is created and dispatched with those resolved so far before the
\* missing one is thrown)
dispatchWithParamsPartial(params, args) ==
  LET route == routeOf(args)
      missing == SelectSeq(params,
                   LAMBDA k : getParamFromSelfOrParents(route, k) = "null")
      entries == entriesOf(params, route)
      payload == fromEntries(entries)
      nulls == {i \in 1..Len(entries) : entries[i][2] = "null"}
      first == CHOOSE i \in nulls : \A j \in nulls : i <= j
      partial == fromEntries(SubSeq(entries, 1, first - 1))
  IN  IF missing # <<>>
      THEN [created |-> <<partial>>, dispatched |-> <<Action("entered", partial)>>,
            result |-> Threw(Head(missing))]
      ELSE [created |-> <<payload>>, dispatched |-> <<Action("entered", payload)>>,
            result |-> Returned("true")]

\* The adapter dispatchWithParams(FooActions.entered, params) called with
\* args: the actions it dispatches and how it ends.  params.map throws at the
\* first key, in the order of params, that resolves to null: before
\* action(payload) is called and before the dispatch.
dispatchWithParams(params, args) ==
  LET route == routeOf(args)
      missing == SelectSeq(params,
                   LAMBDA k : getParamFromSelfOrParents(route, k) = "null")
      payload == fromEntries(entriesOf(params, route))
  IN  IF missing # <<>>
      THEN [created |-> <<>>, dispatched |-> <<>>, result |-> Threw(Head(missing))]
      ELSE [created |-> <<payload>>, dispatched |-> <<Action("entered", payload)>>,
            result |-> Returned("true")]

----------------------------------------------------------------------------
\* The foo feature: FooState and fooReducer, FooActions, the view model of
\* the sidebar (mapToFooSidebarVM, fooSidebarVM) and FooSidebarComponent.

\* JavaScript values of the feature, tagged with their type; a string is the
\* sequence of its characters.
undefined == [type |-> "undefined"]
null == [type |-> "null"]
String(chars) == [type |-> "string", chars |-> chars]
Bool(b) == [type |-> "boolean", val |-> b]
Array(elems) == [type |-> "array", elems |-> elems]

\* !v : undefined, null, '' and false (an array, also an empty one, is truthy)
falsy(v) ==
  v.type \in {"undefined", "null"} \/ v = String(<<>>) \/ v = Bool(FALSE)

\* v || d
OrElse(v, d) == IF falsy(v) THEN d ELSE v

\* v ?? d
Coalesce(v, d) == IF v.type \in {"undefined", "null"} THEN d ELSE v

\* String.prototype.toLowerCase over the letters in use.
lower(c) == CASE c = "T" -> "t" [] c = "O" -> "o" [] OTHER -> c
toLowerCase(s) == String([i \in 1..Len(s.chars) |-> lower(s.chars[i])])

\* String.prototype.includes: t occurs in s as a contiguous substring (the
\* empty string occurs in every string).
includes(s, t) ==
  \E i \in 0..(Len(s.chars) - Len(t.chars)) :
    SubSeq(s.chars, i + 1, i + Len(t.chars)) = t.chars

\* The strings typed into the search box and the message input.
Texts == {String(<<>>), String(<<"t">>), String(<<"T">>), String(<<"o">>),
          String(<<"T", "O">>)}

\* interface Foo (createdAt is not read by the view model).
Ids == {String(<<"1">>), String(<<"2">>)}
Names == {String(<<"T", "o">>), String(<<"o">>)}
Descriptions == {undefined, String(<<"t">>)}
Foos == [id : Ids, name : Names, description : Descriptions, status : {"active"}]

\* The longest list of foos the store holds.
MaxFoos == 2

FooLists == UNION {[1..n -> Foos] : n \in 0..MaxFoos}

\* export const initialFooState: FooState = { ... }
initialFooState ==
  [inputText |-> String(<<>>), foos |-> Array(<<>>), selectedId |-> null,
   loading |-> Bool(FALSE), error |-> null]

\* FooActions = createActionGroup({ source: 'Foo', events: { ... } })
NoProps == <<>>
FooActions_updateFooInput(text) == Action("[Foo] Update foo input", [text |-> text])
FooActions_selected(id) == Action("[Foo] Selected", [id |-> id])

\* Every action of the group, with payloads from the values above.
FooActions ==
  {Action(k, NoProps) : k \in {"[Foo] Navigated to Foo", "[Foo] Load Requested",
                               "[Foo] Clear Selection"}}
    \cup {FooActions_updateFooInput(t) : t \in Texts}
    \cup {FooActions_selected(id) : id \in Ids}
    \cup {Action("[Foo] Load Success", [foos |-> Array(fs)]) :
            fs \in {fl \in FooLists : Len(fl) <= 1}}
    \cup {Action(k, [error |-> String(<<"o">>)]) :
            k \in {"[Foo] Load Failure", "[Foo] Create Failure",
                   "[Foo] Update Failure", "[Foo] Delete Failure"}}
    \cup {Action(k, [foo |-> f]) :
            k \in {"[Foo] Create Success", "[Foo] Update Success"},
            f \in {g \in Foos : g.description = undefined}}
    \cup {Action("[Foo] Delete Success", [id |-> id]) : id \in Ids}

\* A faulty variant of fooReducer (Selected is reduced too: it sets selectedId)
fooReducerSelects(state, action) ==
  IF action.kind = "[Foo] Update foo input"
  THEN [state EXCEPT !.inputText = action.payload.text]
  ELSE IF action.kind = "[Foo] Selected"
  THEN [state EXCEPT !.selectedId = action.payload.id]
  ELSE state

\* createReducer(initialFooState, on(FooActions.updateFooInput, ...)): an
\* action with no on(...) leaves the state as it is.
fooReducer(state, action) ==
  IF action.kind = "[Foo] Update foo input"
  THEN [state EXCEPT !.inputText = action.payload.text]
  ELSE state

\* foo.selectors.ts
selectFoos(state) == state.foos
selectFooInputText(state) == state.inputText
selectSelectedFooId(state) == state.selectedId

\* const safeInput = { ... }
safeInput(input) ==
  [foos |-> OrElse(input.foos, Array(<<>>)),
   selectedId |-> input.selectedId,
   expanded |-> Coalesce(input.expanded, Bool(TRUE)),
   searchText |-> OrElse(input.searchText, String(<<>>)),
   inputText |-> OrElse(input.inputText, String(<<>>))]

\* A faulty variant of items (the first foo is the selected one)
itemsFirstSelected(safe) ==
  [i \in 1..Len(safe.foos.elems) |->
     LET foo == safe.foos.elems[i]
     IN  [id |-> foo.id, name |-> foo.name,
          description |-> OrElse(foo.description, String(<<>>)),
          status |-> foo.status,
          isSelected |-> (i = 1 /\ safe.selectedId # null)]]

\* const items = safeInput.foos.map(foo => ({ ... }))
items(safe) ==
  [i \in 1..Len(safe.foos.elems) |->
     LET foo == safe.foos.elems[i]
     IN  [id |-> foo.id, name |-> foo.name,
          description |-> OrElse(foo.description, String(<<>>)),
          status |-> foo.status,
          isSelected |-> (foo.id = safe.selectedId)]]

\* const filteredItems = items.filter(item => ... || ...)
filteredItems(its, searchText) ==
  SelectSeq(its, LAMBDA item :
    \/ includes(toLowerCase(item.name), toLowerCase(searchText))
    \/ includes(toLowerCase(item.description), toLowerCase(searchText)))

\* A faulty variant of mapToFooSidebarVM (hasResults tells whether there are
\* foos at all)
mapToFooSidebarVMHasFoos(input) ==
  LET safe == safeInput(input)
      its == items(safe)
      filtered == filteredItems(its, safe.searchText)
  IN  [textInputValue |-> safe.inputText,
       items |-> its,
       selectedId |-> safe.selectedId,
       isExpanded |-> safe.expanded,
       filteredItems |-> filtered,
       hasResults |-> Len(its) > 0,
       searchText |-> safe.searchText]

\* A faulty variant of mapToFooSidebarVM (the input text and the search text
\* are passed on as they came)
mapToFooSidebarVMNoDefault(input) ==
  LET safe == safeInput(input)
      its == items(safe)
      filtered == filteredItems(its, safe.searchText)
  IN  [textInputValue |-> input.inputText,
       items |-> its,
       selectedId |-> safe.selectedId,
       isExpanded |-> safe.expanded,
       filteredItems |-> filtered,
       hasResults |-> Len(filtered) > 0,
       searchText |-> input.searchText]

\* export function mapToFooSidebarVM(input): FooSidebarVM
mapToFooSidebarVM(input) ==
  LET safe == safeInput(input)
      its == items(safe)
      filtered == filteredItems(its, safe.searchText)
  IN  [textInputValue |-> safe.inputText,
       items |-> its,
       selectedId |-> safe.selectedId,
       isExpanded |-> safe.expanded,
       filteredItems |-> filtered,
       hasResults |-> Len(filtered) > 0,
       searchText |-> safe.searchText]

\* fooSidebarVM(store, searchText, expanded): the value of the computed
\* signal for a state of the feature and the values of the two signals.
fooSidebarVM(state, searchText, expanded) ==
  mapToFooSidebarVM([foos |-> selectFoos(state),
                     selectedId |-> selectSelectedFooId(state),
                     expanded |-> expanded,
                     searchText |-> searchText,
                     inputText |-> selectFooInputText(state)])

\* FooSidebarComponent as constructed over the initial state of the feature.
InitComponent ==
  /\ fooState = initialFooState
  /\ searchTextS = String(<<>>)
  /\ expandedS = Bool(TRUE)
  /\ vm = fooSidebarVM(fooState, searchTextS, expandedS)
  /\ dispatched = <<>>
  /\ called = <<>>

\* A faulty variant of setSearch (a search expands the sidebar)
setSearchExpands(text) ==
  /\ searchTextS' = text
  /\ expandedS' = Bool(TRUE)
  /\ dispatched' = <<>>
  /\ called' = <<"setSearch", text>>
  /\ vm' = fooSidebarVM(fooState, searchTextS', expandedS')
  /\ UNCHANGED <<fooState, store, cfg, flows, queue, guard, effect, routeVars>>

\* setSearch(text) { this.searchTextS.set(text); }
setSearch(text) ==
  /\ searchTextS' = text
  /\ dispatched' = <<>>
  /\ called' = <<"setSearch", text>>
  /\ vm' = fooSidebarVM(fooState, searchTextS', expandedS)
  /\ UNCHANGED <<expandedS, fooState, store, cfg, flows, queue, guard, effect,
                 routeVars>>

\* toggleExpanded() { this.expandedS.update(v => !v); }
toggleExpanded ==
  /\ expandedS' = Bool(~expandedS.val)
  /\ dispatched' = <<>>
  /\ called' = <<"toggleExpanded">>
  /\ vm' = fooSidebarVM(fooState, searchTextS, expandedS')
  /\ UNCHANGED <<searchTextS, fooState, store, cfg, flows, queue, guard, effect,
                 routeVars>>

\* A faulty variant of FooSidebarComponent_select (the click also clears the
\* search)
FooSidebarComponent_selectClears(id) ==
  /\ dispatched' = <<FooActions_selected(id)>>
  /\ fooState' = fooReducer(fooState, FooActions_selected(id))
  /\ searchTextS' = String(<<>>)
  /\ called' = <<"select", id>>
  /\ vm' = fooSidebarVM(fooState', searchTextS', expandedS)
  /\ UNCHANGED <<expandedS, store, cfg, flows, queue, guard, effect, routeVars>>

\* select(id) { this.store.dispatch(FooActions.selected({ id })); }  The
\* Store reduces the action in the dispatch.
FooSidebarComponent_select(id) ==
  /\ dispatched' = <<FooActions_selected(id)>>
  /\ fooState' = fooReducer(fooState, FooActions_selected(id))
  /\ called' = <<"select", id>>
  /\ vm' = fooSidebarVM(fooState', searchTextS, expandedS)
  /\ UNCHANGED <<searchTextS, expandedS, store, cfg, flows, queue, guard, effect,
                 routeVars>>

\* textInputChange(text) { this.store.dispatch(FooActions.updateFooInput({ text })); }
textInputChange(text) ==
  /\ dispatched' = <<FooActions_updateFooInput(text)>>
  /\ fooState' = fooReducer(fooState, FooActions_updateFooInput(text))
  /\ called' = <<"textInputChange", text>>
  /\ vm' = fooSidebarVM(fooState', searchTextS, expandedS)
  /\ UNCHANGED <<searchTextS, expandedS, store, cfg, flows, queue, guard, effect,
                 routeVars>>

\* An action of the group dispatched to the Store from outside the component:
\* provideState('foo', fooReducer) reduces it.
StoreDispatch(action) ==
  /\ fooState' = fooReducer(fooState, action)
  /\ dispatched' = <<>>
  /\ called' = <<"dispatch", action>>
  /\ vm' = fooSidebarVM(fooState', searchTextS, expandedS)
  /\ UNCHANGED <<searchTextS, expandedS, store, cfg, flows, queue, guard, effect,
                 routeVars>>

\* store.overrideSelector(selectSelectedFooId, id); store.refreshState();
overrideSelectedFooId(id) ==
  /\ fooState' = [fooState EXCEPT !.selectedId = id]
  /\ dispatched' = <<>>
  /\ called' = <<"overrideSelector", id>>
  /\ vm' = fooSidebarVM(fooState', searchTextS, expandedS)
  /\ UNCHANGED <<searchTextS, expandedS, store, cfg, flows, queue, guard, effect,
                 routeVars>>

----------------------------------------------------------------------------
\* The store and the effect loadBazData$.

NoGuard == [in |-> <<>>, out |-> <<>>, projected |-> <<>>]

\* The effect's exhaustMap has an inner flow that has not completed.
innerActive(fs) == \E i \in 1..Len(fs) : ~fs[i].done

\* A faulty variant of loadBazData (then(cfg) is subscribed for every triggering
\* action, whatever the guard's sample)
loadBazDataUnguarded(a, s, fs) ==
  exhaustMap(SelectSeq(<<a>>, LAMBDA x : ofType(x, Triggers)), innerActive(fs))

\* loadBazData$ receiving action a in state s while the flows are fs: the
\* actions for which exhaustMap subscribes a new then(cfg).
loadBazData(a, s, fs) ==
  LET typed == SelectSeq(<<a>>, LAMBDA x : ofType(x, Triggers))
      guarded == skipIfLoaded(typed, s, "selectBazLoaded")
  IN  exhaustMap(guarded, innerActive(fs))

\* The concatenation of a sequence of sequences.
RECURSIVE Concat(_)
Concat(ss) == IF ss = <<>> THEN <<>> ELSE Head(ss) \o Concat(Tail(ss))

\* The store reduces action a to state `new` and publishes: first the state
\* (the waiters of the flows), then the action on actions$, to the effect
\* (subscribed at start-up, as long as it is) and then to the abort watchers
\* of the flows that existed when the delivery began.
Deliver(a, new) ==
  LET afterState == [i \in 1..Len(flows) |-> onState(flows[i], store, new)]
      listening == effect = "subscribed"
      typed == SelectSeq(<<a>>, LAMBDA x : listening /\ ofType(x, Triggers))
      created == IF listening THEN loadBazData(a, new, afterState) ELSE <<>>
      afterAction == [i \in 1..Len(flows) |-> onAction(afterState[i], a)]
      emitted == [i \in 1..Len(flows) |->
                    SubSeq(afterAction[i].outcomes,
                           Len(flows[i].outcomes) + 1, Len(afterAction[i].outcomes))]
      allEmitted == Concat(emitted)
  IN  /\ store' = new
      /\ flows' = IF created # <<>>
                  THEN Append(SelectSeq(afterAction, LAMBDA f : ~f.done),
                              subscribeThen(new))
                  ELSE afterAction
      /\ queue' = allEmitted
      /\ guard' = [in |-> typed,
                    out |-> skipIfLoaded(typed, new, "selectBazLoaded"),
                    projected |-> created]
      /\ UNCHANGED <<cfg, effect, routeVars, sidebarVars>>

\* store.dispatch(action) by the application (route resolvers, other effects).
Dispatch(kind, new) ==
  /\ queue = <<>>
  /\ Deliver(Action(kind, "none"), new)

\* The store reduces an outcome action the effect dispatched.
Consume(new) ==
  /\ queue # <<>>
  /\ Len(queue) = 1
  /\ Deliver(Head(queue), new)

\* A faulty variant of OpSucceed (the flow marks the feature loaded in the store
\* itself instead of leaving it to the reducer of its outcome action)
OpSucceedWritesStore(i, r) ==
  /\ queue = <<>>
  /\ i \in 1..Len(flows)
  /\ flows[i].op = "inflight"
  /\ flows' = [flows EXCEPT ![i] = raceRunWins(@, onSuccess(r), "succeeded")]
  /\ queue' = <<onSuccess(r)>>
  /\ guard' = NoGuard
  /\ store' = [store EXCEPT !.selectBazLoaded = "true"]
  /\ UNCHANGED <<cfg, effect, routeVars, sidebarVars>>

\* The asynchronous operation of flow i yields its single result.
OpSucceed(i, r) ==
  /\ queue = <<>>
  /\ i \in 1..Len(flows)
  /\ flows[i].op = "inflight"
  /\ flows' = [flows EXCEPT ![i] = raceRunWins(@, onSuccess(r), "succeeded")]
  /\ queue' = <<onSuccess(r)>>
  /\ guard' = NoGuard
  /\ UNCHANGED <<store, cfg, effect, routeVars, sidebarVars>>

\* The asynchronous operation of flow i fails: catchError maps the error to
\* an action, which the flow emits as a value.  (An error nothing had mapped
\* would be the error of the flow, of exhaustMap and of the effect.)
OpFail(i, e) ==
  /\ queue = <<>>
  /\ i \in 1..Len(flows)
  /\ flows[i].op = "inflight"
  /\ LET g == raceRunWins(flows[i], onError(e), "failed")
         emitted == SubSeq(g.outcomes, Len(flows[i].outcomes) + 1, Len(g.outcomes))
     IN  /\ flows' = [flows EXCEPT ![i] = g]
         /\ queue' = emitted
         /\ effect' = IF emitted = <<>> THEN "errored" ELSE effect
  /\ guard' = NoGuard
  /\ UNCHANGED <<store, cfg, routeVars, sidebarVars>>

\* The effect is torn down (its subscription is released): exhaustMap
\* releases the subscription to the flow that has not completed.
Teardown ==
  /\ queue = <<>>
  /\ effect = "subscribed"
  /\ effect' = "unsubscribed"
  /\ flows' = [i \in 1..Len(flows) |->
                 IF flows[i].done THEN flows[i] ELSE unsubscribe(flows[i])]
  /\ guard' = NoGuard
  /\ UNCHANGED <<store, cfg, queue, routeVars, sidebarVars>>

Init ==
  /\ cfg \in Cfgs
  /\ store \in Stores(cfg)
  /\ flows = <<>>
  /\ queue = <<>>
  /\ guard = NoGuard
  /\ effect = "subscribed"
  /\ adapter = <<>>
  /\ invocation = <<>>
  /\ bus = <<>>
  /\ factory = <<>>
  /\ returned = NoResult
  /\ InitComponent

Next ==
  \/ \E kind \in ExternalKinds, new \in Stores(cfg) : Dispatch(kind, new)
  \/ \E new \in Stores(cfg) : Consume(new)
  \/ \E i \in 1..Len(flows), r \in Results : OpSucceed(i, r)
  \/ \E i \in 1..Len(flows), e \in Errors : OpFail(i, e)

Spec == Init /\ [][Next]_vars

\* The router calls the adapter (as resolver, canActivate or canDeactivate).
RouterCalls(args) ==
  /\ invocation = <<>>
  /\ LET r == dispatchWithParams(adapter, args)
     IN  /\ bus' = bus \o r.dispatched
         /\ factory' = factory \o r.created
         /\ returned' = r.result
  /\ invocation' = args
  /\ UNCHANGED <<adapter, store, cfg, flows, queue, guard, effect, sidebarVars>>

\* A route whose hook is dispatchWithParams(FooActions.entered, params); the
\* effect takes no part.
InitRoute ==
  /\ adapter \in ParamLists
  /\ invocation = <<>>
  /\ bus = <<>>
  /\ factory = <<>>
  /\ returned = NoResult
  /\ InitComponent
  /\ cfg = CHOOSE c \in Cfgs : ~c.waitForTruthy.isArray /\ ~c.abortOn.isArray
  /\ store = [selectBazLoaded |-> "undefined", selectFoos |-> "undefined",
              selectBar |-> "undefined"]
  /\ flows = <<>>
  /\ queue = <<>>
  /\ guard = NoGuard
  /\ effect = "subscribed"

\* The calls the router can make: one call of the hook per navigation.
Calls == IF invocation = <<>> THEN Args ELSE {}

NextRoute == \E args \in Calls : RouterCalls(args)

SpecRoute == InitRoute /\ [][NextRoute]_vars

\* The effect on a view that takes every kind of value: the falsy values of
\* JavaScript, an empty collection ("[]") and a populated one ("A").
ViewVals == Falsy \cup {"[]", "A"}

ReadyStores(c) ==
  {s \in [selectBazLoaded : {"undefined"}, selectFoos : ViewVals,
          selectBar : {"undefined", "[]"}] :
     c.waitForTruthy.isArray \/ s.selectBar = "undefined"}

InitReady ==
  /\ cfg \in {c \in Cfgs : ~c.abortOn.isArray}
  /\ store \in ReadyStores(cfg)
  /\ flows = <<>>
  /\ queue = <<>>
  /\ guard = NoGuard
  /\ effect = "subscribed"
  /\ adapter = <<>>
  /\ invocation = <<>>
  /\ bus = <<>>
  /\ factory = <<>>
  /\ returned = NoResult
  /\ InitComponent

NextReady ==
  \/ \E kind \in ExternalKinds, new \in ReadyStores(cfg) : Dispatch(kind, new)
  \/ \E new \in ReadyStores(cfg) : Consume(new)
  \/ \E i \in 1..Len(flows), r \in Results : OpSucceed(i, r)
  \/ \E i \in 1..Len(flows), e \in Errors : OpFail(i, e)

SpecReady == InitReady /\ [][NextReady]_vars

\* The effect and its flows when the effect may also be torn down.
NextTeardown ==
  \/ Next
  \/ Teardown

SpecTeardown == Init /\ [][NextTeardown]_vars

\* The effect and the route adapter take no part.
InitOthers ==
  /\ cfg = CHOOSE c \in Cfgs : ~c.waitForTruthy.isArray /\ ~c.abortOn.isArray
  /\ store = [selectBazLoaded |-> "undefined", selectFoos |-> "undefined",
              selectBar |-> "undefined"]
  /\ flows = <<>>
  /\ queue = <<>>
  /\ guard = NoGuard
  /\ effect = "subscribed"
  /\ adapter = <<>>
  /\ invocation = <<>>
  /\ bus = <<>>
  /\ factory = <<>>
  /\ returned = NoResult

\* The foo feature as the routes provide it: FooSidebarComponent over the
\* Store with fooReducer; FooEffects has no effects.
InitApp == InitComponent /\ InitOthers

NextApp ==
  \/ \E text \in Texts : setSearch(text)
  \/ toggleExpanded
  \/ \E id \in Ids : FooSidebarComponent_select(id)
  \/ \E text \in Texts : textInputChange(text)
  \/ \E action \in FooActions : StoreDispatch(action)

SpecApp == InitApp /\ [][NextApp]_vars

\* The values the mock store of the tests gives the selectors, and those of
\* the two signals, with the values a caller may leave out.
MockStates ==
  [inputText : {undefined, String(<<>>), String(<<"t">>)},
   foos : {undefined, null} \cup {Array(fl) : fl \in FooLists},
   selectedId : {null} \cup Ids,
   loading : {Bool(FALSE)},
   error : {null}]

\* The view model over a mock store: fooSidebarVM(store, searchTextSignal,
\* expandedSignal), re-evaluated when a selector is overridden or the search
\* text is set.
InitVM ==
  /\ fooState \in MockStates
  /\ searchTextS \in Texts \cup {undefined, null}
  /\ expandedS \in {Bool(TRUE), Bool(FALSE), undefined}
  /\ vm = fooSidebarVM(fooState, searchTextS, expandedS)
  /\ dispatched = <<>>
  /\ called = <<>>
  /\ InitOthers

NextVM ==
  \/ \E id \in {null} \cup Ids : overrideSelectedFooId(id)
  \/ \E text \in Texts : setSearch(text)

SpecVM == InitVM /\ [][NextVM]_vars

----------------------------------------------------------------------------
\* Steps and flows, as the properties speak of them.

\* The step delivers an action that matches cfg.abortOn.
AbortDelivered ==
  \E kind \in ExternalKinds :
    /\ ofType(Action(kind, "none"), abortCreators(cfg))
    /\ Dispatch(kind, store')

\* Flow i of the state before the step is flow i of the state after it (a
\* step in which exhaustMap subscribes a new flow drops the completed ones).
Persists(i) == i \in 1..Len(flows) /\ guard'.projected = <<>>

\* The flow subscribed in this step, if any, is the last one.
Created == guard'.projected # <<>>

\* The values of the selectors of w in state s.
selected(w, s) == [i \in 1..Len(w.sels) |-> select(s, w.sels[i])]

hasOutcome(f, a) == \E k \in 1..Len(f.outcomes) : f.outcomes[k] = a

----------------------------------------------------------------------------
\* C1  Abort precedence: when an abortOn action is delivered to a flow that
\* is alive and whose waiter has not notified (the prerequisites have not
\* become ready for it), the flow's outcome is exactly abortWith() and
\* cfg.then is not invoked, then or ever after.
C1_AbortPrecedence ==
  [][\A i \in 1..Len(flows) :
       Persists(i) =>
         /\ (AbortDelivered /\ ~flows[i].done /\ flows'[i].seen = 0)
              => /\ flows'[i].outcomes = <<abortWith>>
                 /\ flows'[i].thenCalls = 0
                 /\ queue' = <<abortWith>>
         /\ (flows[i].outcomes = <<abortWith>> /\ flows[i].thenCalls = 0)
              => /\ flows'[i].outcomes = <<abortWith>>
                 /\ flows'[i].thenCalls = 0]_vars

\* An abort arrived while a flow was waiting: it ended with abortWith() and
\* the operation idle.
C1_Witness ==
  \E i \in 1..Len(flows) :
    /\ flows[i].outcomes = <<abortWith>>
    /\ flows[i].op = "idle"
    /\ flows[i].done

\* C2  Whenever a flow's outcome is abortWith(), cfg.then was never invoked
\* in that flow.
C2_AbortImpliesNeverStarted ==
  \A i \in 1..Len(flows) :
    hasOutcome(flows[i], abortWith) => flows[i].thenCalls = 0

\* C3  Once the asynchronous operation is in flight, no step cancels it or
\* makes the flow emit abortWith(): it stays in flight until it has
\* succeeded or failed.
C3_RunsToCompletion ==
  [][\A i \in 1..Len(flows) :
       (Persists(i) /\ flows[i].op = "inflight")
         => /\ flows'[i].op \in {"inflight", "succeeded", "failed"}
            /\ ~hasOutcome(flows'[i], abortWith)]_vars

\* C4  Success/failure mapping: when the operation of a flow yields r the
\* flow emits onSuccess(r), when it fails with e the flow emits onError(e);
\* that action is the flow's only outcome, it is dispatched to the store, and
\* the flow emits nothing after it.
C4_SuccessFailureMapping ==
  [][\A i \in 1..Len(flows) :
       /\ \A r \in Results :
            OpSucceed(i, r) => /\ flows'[i].outcomes = <<onSuccess(r)>>
                               /\ queue' = <<onSuccess(r)>>
       /\ \A e \in Errors :
            OpFail(i, e) => /\ flows'[i].outcomes = <<onError(e)>>
                            /\ queue' = <<onError(e)>>
       /\ (Persists(i) /\ flows[i].op \in {"succeeded", "failed"})
            => flows'[i].outcomes = flows[i].outcomes]_vars

\* The operation of a flow has failed and the flow has just emitted the
\* mapped failure.
C4_Witness ==
  \E i \in 1..Len(flows) :
    /\ flows[i].op = "failed"
    /\ flows[i].outcomes = <<onError("e1")>>
    /\ queue = <<onError("e1")>>

\* C5  At most one outcome action per flow.
C5_AtMostOneOutcome ==
  \A i \in 1..Len(flows) : Len(flows[i].outcomes) <= 1

\* An aborted flow whose one outcome the store has consumed, and to which a
\* later step (the delivery of a triggering action the guard dropped) has
\* added nothing.
C5_Witness ==
  \E i \in 1..Len(flows) :
    /\ flows[i].outcomes = <<abortWith>>
    /\ queue = <<>>
    /\ guard.in # <<>>

\* C6  Idempotency: a triggering action that arrives while the loaded view
\* is truthy is dropped by skipIfLoaded: nothing is passed on, no flow is
\* subscribed and no outcome is dispatched.
C6_Idempotency ==
  [][(guard'.in # <<>> /\ isTruthy(select(store', "selectBazLoaded")))
       => /\ guard'.out = <<>>
          /\ guard'.projected = <<>>
          /\ Len(flows') = Len(flows)
          /\ queue' = <<>>]_vars

\* A triggering action has just arrived with the feature loaded and no flow
\* exists.
C6_Witness ==
  /\ guard.in # <<>>
  /\ guard.out = <<>>
  /\ select(store, "selectBazLoaded") = "true"
  /\ flows = <<>>

\* C7  skipIfLoaded passes the triggering action on, unchanged, exactly when
\* the loaded view's value at the moment the action arrives (the state the
\* store holds once it has reduced that action) is falsy (false, undefined,
\* null); otherwise it passes nothing.
C7_GuardSamplesCurrent ==
  guard.out = IF isTruthy(select(store, "selectBazLoaded")) THEN <<>> ELSE guard.in

\* A triggering action has just passed the guard on an absent loaded flag.
C7_Witness ==
  /\ guard.in # <<>>
  /\ guard.out = guard.in
  /\ select(store, "selectBazLoaded") = "undefined"

C9_AllOf ==
  [][cfg.waitForTruthy.isArray =>
       /\ \A i \in 1..Len(flows) :
            (Persists(i) /\ flows'[i].seen > flows[i].seen)
              => every(selected(cfg.waitForTruthy, store'))
       /\ (Created /\ flows'[Len(flows')].seen > 0)
            => every(selected(cfg.waitForTruthy, store'))
       /\ \A i \in 1..Len(flows') :
            /\ flows'[i].waitSub => ~every(selected(cfg.waitForTruthy, store'))
            /\ flows'[i].seen <= 1]_vars

\* C10  A flow subscribed while the prerequisite views are already truthy
\* has invoked cfg.then, with their values, by the end of the step that
\* created it: the waiter has completed and neither the abort watcher nor
\* anything else has acted on the flow.
C10_ImmediateStart ==
  [][(Created /\ every(selected(cfg.waitForTruthy, store')))
       => LET g == flows'[Len(flows')]
          IN  /\ g.seen = 1
              /\ g.thenCalls = 1
              /\ g.op = "inflight"
              /\ g.prereq.vals = selected(cfg.waitForTruthy, store')
              /\ ~g.waitSub
              /\ g.abortSub
              /\ g.outcomes = <<>>
              /\ ~g.done]_vars

\* A flow has just been subscribed and its operation is already in flight.
C10_Witness ==
  /\ guard.projected # <<>>
  /\ flows # <<>>
  /\ flows[Len(flows)].op = "inflight"

\* The step invokes cfg.then in flow g (flow f before the step).
Invoked(f, g) == g.thenCalls > f.thenCalls

\* C11  For an array of views, every invocation of cfg.then receives the
\* array holding, in the order of the selectors, the value each view has in
\* the store at the instant of the notification.
C11_FullLatestValues ==
  [][cfg.waitForTruthy.isArray =>
       /\ \A i \in 1..Len(flows) :
            (Persists(i) /\ Invoked(flows[i], flows'[i]))
              => flows'[i].prereq =
                   Notification(TRUE, selected(cfg.waitForTruthy, store'))
       /\ (Created /\ flows'[Len(flows')].thenCalls > 0)
            => flows'[Len(flows')].prereq =
                 Notification(TRUE, selected(cfg.waitForTruthy, store'))]_vars

\* C12  Whatever the shape of waitForTruthy, every invocation of cfg.then
\* receives one value, the (truthy) value of the first selector: for an array
\* of selectors not the array of all values.
C12_FirstSelectorValue ==
  [][/\ \A i \in 1..Len(flows) :
          (Persists(i) /\ Invoked(flows[i], flows'[i]))
            => flows'[i].prereq =
                 Notification(FALSE, <<select(store', cfg.waitForTruthy.sels[1])>>)
     /\ (Created /\ flows'[Len(flows')].thenCalls > 0)
          => flows'[Len(flows')].prereq =
               Notification(FALSE, <<select(store', cfg.waitForTruthy.sels[1])>>)]_vars

\* The step delivers, from the application, an action loadBazData$ listens to.
TriggerDelivered ==
  \E kind \in ExternalKinds :
    /\ ofType(Action(kind, "none"), Triggers)
    /\ Dispatch(kind, store')

\* The flows that have not completed.
live(fs) == {i \in 1..Len(fs) : ~fs[i].done}

\* C13 (as stated)  A triggering action that passes the guard while an
\* earlier flow has not completed subscribes a second flow, and the two
\* are alive together.
C13_ConcurrentFlows ==
  [][(TriggerDelivered /\ guard'.out # <<>> /\ innerActive(flows))
       => /\ Created
          /\ Cardinality(live(flows')) >= 2]_vars

\* C13 (amended)  In loadBazData$ the flow is subscribed by exhaustMap: a
\* triggering action that passes the guard while an earlier flow has not
\* completed is ignored (no flow is subscribed, cfg.then is not invoked for
\* it), and at no time are two flows of the effect alive together.
C13_OneFlowAtATime ==
  [][/\ (TriggerDelivered /\ guard'.out # <<>> /\ innerActive(flows))
          => /\ ~Created
             /\ Len(flows') = Len(flows)
     /\ Cardinality(live(flows')) <= 1]_vars

\* A triggering action has just passed the guard and was ignored, the
\* operation of the earlier flow being in flight.
C13_Witness ==
  /\ guard.out # <<>>
  /\ guard.projected = <<>>
  /\ \E i \in 1..Len(flows) : flows[i].op = "inflight" /\ ~flows[i].done

\* C14  Async failure is recovered locally: when the operation of a flow
\* fails with e, the flow emits onError(e) as a value (it is dispatched) and
\* ends; the error does not end the effect, which stays subscribed, and a
\* triggering action delivered after the failure still enters the pipeline
\* and, the feature not being loaded, subscribes a new flow.
C14_FailureRecoveredLocally ==
  [][/\ \A i \in 1..Len(flows) : \A e \in Errors :
          OpFail(i, e) => /\ flows'[i].outcomes = <<onError(e)>>
                          /\ flows'[i].done
                          /\ queue' = <<onError(e)>>
                          /\ effect' = "subscribed"
     /\ (TriggerDelivered /\ \E i \in 1..Len(flows) : flows[i].op = "failed")
          => /\ guard'.in # <<>>
             /\ ~isTruthy(select(store', "selectBazLoaded")) => Created]_vars

\* The operation of a flow has failed, the store has consumed the failure
\* action, and a later triggering action has entered the pipeline.
C14_Witness ==
  /\ \E i \in 1..Len(flows) :
       flows[i].op = "failed" /\ flows[i].outcomes = <<onError("e1")>>
  /\ queue = <<>>
  /\ guard.in # <<>>
  /\ effect = "subscribed"

\* C15  Unbounded wait: a flow that is waiting stays exactly as it is (no
\* outcome, cfg.then not invoked, not completed) through every step that
\* neither delivers an abortOn action nor leaves the prerequisite views all
\* truthy in the store; so does a flow subscribed in such a step.
C15_UnboundedWait ==
  [][(~AbortDelivered /\ ~every(selected(cfg.waitForTruthy, store')))
       => /\ \A i \in 1..Len(flows) :
               (Persists(i) /\ ~flows[i].done /\ flows[i].seen = 0)
                 => flows'[i] = flows[i]
          /\ Created
               => LET g == flows'[Len(flows')]
                  IN  /\ g.waitSub /\ g.abortSub /\ ~g.done
                      /\ g.thenCalls = 0
                      /\ g.outcomes = <<>>]_vars

\* The flow was released before its abort watcher or its waiter had
\* produced anything.
TornUnresolved(f) == f.done /\ f.outcomes = <<>> /\ f.thenCalls = 0

\* C16  Teardown: a flow released while it is waiting (neither the abort
\* side nor the prerequisite side has resolved) is left without outcome and
\* with cfg.then uninvoked, and from then on no step changes it or
\* dispatches anything, whatever actions are delivered and whatever the views
\* become.
C16_Teardown ==
  [][\A i \in 1..Len(flows) :
       /\ (Teardown /\ ~flows[i].done /\ flows[i].seen = 0)
            => TornUnresolved(flows'[i])
       /\ (effect = "unsubscribed" /\ TornUnresolved(flows[i]))
            => /\ Len(flows') = Len(flows)
               /\ flows'[i] = flows[i]
               /\ queue' = <<>>]_vars

\* A flow was torn down while it waited; since then the prerequisite views
\* have all become truthy.
C16_Witness ==
  /\ effect = "unsubscribed"
  /\ \E i \in 1..Len(flows) : TornUnresolved(flows[i]) /\ flows[i].op = "idle"
  /\ every(selected(cfg.waitForTruthy, store))

----------------------------------------------------------------------------
\* The route of a call, as the properties speak of it.

\* The levels of the route, counted from the root, that define the key.
defining(route, key) ==
  {i \in 1..Len(route.pathFromRoot) : route.pathFromRoot[i][key] # "null"}

\* The value the deepest level defining the key gives it.
deepest(route, key) ==
  LET def == defining(route, key)
  IN  route.pathFromRoot[CHOOSE i \in def : \A j \in def : j <= i][key]

\* The keys of the adapter, in its order, that no level of the route defines.
undefinedKeys(route) ==
  SelectSeq(adapter, LAMBDA k : defining(route, k) = {})

keysOf(params) == {params[i] : i \in 1..Len(params)}

\* C17  Route-parameter resolution order: for the route of every call and
\* every key some level defines, getParamFromSelfOrParents yields the value
\* of the deepest level that defines the key (the leaf's if the leaf defines
\* it, else the nearest ancestor's), and that is the value the dispatched
\* payload holds for the key.
C17_DeepestWins ==
  invocation # <<>> =>
    LET route == routeOf(invocation)
    IN  \A k \in RouteKeys :
          defining(route, k) # {} =>
            /\ getParamFromSelfOrParents(route, k) = deepest(route, k)
            /\ (k \in keysOf(adapter) /\ bus # <<>>)
                 => bus[1].payload[k] = deepest(route, k)

\* A call on a route of three levels: id is defined by the root ("7") and
\* the middle level ("") but not by the leaf, sectionId by the root ("7")
\* and the leaf (""); the payload holds the deeper values.
C17_Witness ==
  /\ invocation # <<>>
  /\ adapter = <<"sectionId", "id">>
  /\ LET path == routeOf(invocation).pathFromRoot
     IN  /\ Len(path) = 3
         /\ path[1] = [id |-> "7", sectionId |-> "7"]
         /\ path[2] = [id |-> "", sectionId |-> "null"]
         /\ path[3] = [id |-> "null", sectionId |-> ""]
  /\ bus = <<Action("entered", [id |-> "", sectionId |-> ""])>>

\* C18  Missing parameter is fatal: when some key of the adapter is defined
\* by no level of the route, the call ends by throwing the error that names
\* such a key (the first in the order of params), and no action is
\* dispatched: no payload with a default or null is ever built.
C18_MissingParamFatal ==
  invocation # <<>> =>
    LET missing == undefinedKeys(routeOf(invocation))
    IN  /\ missing # <<>> => /\ returned = Threw(Head(missing))
                             /\ bus = <<>>
        /\ \A n \in 1..Len(bus) : \A k \in DOMAIN bus[n].payload :
             bus[n].payload[k] # "null"

\* A canDeactivate call whose route defines sectionId but not id has thrown
\* naming id.
C18_Witness ==
  /\ Len(invocation) = 4
  /\ adapter = <<"sectionId", "id">>
  /\ defining(routeOf(invocation), "sectionId") # {}
  /\ returned = Threw("id")
  /\ bus = <<>>

\* C19  A call in which every key resolves dispatches exactly one action, in
\* the call itself: FooActions.entered(payload), where payload has the
\* adapter's keys and no other and maps each to its resolved value; and the
\* call returns true.
C19_OneEventAndTrue ==
  [][(invocation = <<>> /\ invocation' # <<>>
        /\ undefinedKeys(routeOf(invocation')) = <<>>)
       => /\ Len(bus') = Len(bus) + 1
          /\ LET ev == bus'[Len(bus')]
             IN  /\ ev.kind = "entered"
                 /\ DOMAIN ev.payload = keysOf(adapter)
                 /\ \A k \in keysOf(adapter) :
                      ev.payload[k] = deepest(routeOf(invocation'), k)
          /\ returned' = Returned("true")]_vars

\* A canActivate call has returned true after dispatching the action with
\* both parameters, one taken from the leaf and one from its parent.
C19_Witness ==
  /\ Len(invocation) = 2
  /\ adapter = <<"sectionId", "id">>
  /\ returned = Returned("true")
  /\ Len(bus) = 1
  /\ LET path == routeOf(invocation).pathFromRoot
     IN  /\ Len(path) = 2
         /\ path[1] = [id |-> "null", sectionId |-> "7"]
         /\ path[2] = [id |-> "7", sectionId |-> "null"]

\* C20  Events in, events out: the store's state changes only in a step in
\* which the store reduces an action (one the application dispatched or an
\* outcome action the effect dispatched); the steps of the flow itself (the
\* operation yielding or failing, with the outcome mapping and the race) leave
\* the store as it is.
C20_EventsInEventsOut ==
  [][/\ store' # store
          => \/ \E kind \in ExternalKinds : Dispatch(kind, store')
             \/ Consume(store')
     /\ (\E i \in 1..Len(flows) :
           \/ \E r \in Results : OpSucceed(i, r)
           \/ \E e \in Errors : OpFail(i, e))
          => store' = store]_vars

\* The operation of a flow, started by the waiter, has just succeeded and its
\* outcome action is dispatched, not yet reduced.
C20_Witness ==
  /\ queue = <<onSuccess("r2")>>
  /\ \E i \in 1..Len(flows) :
       flows[i].op = "succeeded" /\ flows[i].outcomes = <<onSuccess("r2")>>
  /\ ~isTruthy(select(store, "selectBazLoaded"))

\* C21  Ordering within one flow: a flow (its waiter and its abort watcher)
\* is subscribed only in a step in which a triggering action entered the
\* guard, the guard sampled the loaded view falsy in the state of that step
\* and passed the action on; in every other step no flow appears and no
\* flow gains a waiter or an abort watcher.
C21_GuardBeforeWaiter ==
  [][/\ Created
          => /\ guard'.in # <<>>
             /\ guard'.out = guard'.in
             /\ guard'.projected = guard'.out
             /\ ~isTruthy(select(store', "selectBazLoaded"))
     /\ ~Created
          => /\ Len(flows') = Len(flows)
             /\ \A i \in 1..Len(flows) :
                  /\ flows'[i].waitSub => flows[i].waitSub
                  /\ flows'[i].abortSub => flows[i].abortSub
     /\ Len(flows') > Len(flows) => Created]_vars

\* A flow has just been subscribed on a loaded flag sampled false; its
\* waiter and its abort watcher are established.
C21_Witness ==
  /\ guard.projected # <<>>
  /\ select(store, "selectBazLoaded") = "false"
  /\ flows # <<>>
  /\ flows[Len(flows)].waitSub
  /\ flows[Len(flows)].abortSub

\* undefined, null, false, 0, '' and NaN, as the model encodes them.
stillWaiting == {"undefined", "null", "false", "zero", "empty", "NaN"}

\* None of the configured views holds one of those values in state s.
ready(s) ==
  \A k \in 1..Len(cfg.waitForTruthy.sels) :
    select(s, cfg.waitForTruthy.sels[k]) \notin stillWaiting

\* What cfg.then is to receive in state s.
passed(s) ==
  Notification(cfg.waitForTruthy.isArray, selected(cfg.waitForTruthy, s))

\* C22  Readiness convention.  Single view: a waiting flow keeps waiting
\* through every step that leaves the view undefined, null, false, 0, '' or
\* NaN, and is notified, cfg.then receiving the view's value, in the step
\* that leaves it any other value, an empty collection included.  A flow
\* subscribed on a view (on views) holding such values starts at once with
\* them, and waits if one of them is one of the six.
C22_ReadinessConvention ==
      [][/\ ~cfg.waitForTruthy.isArray =>
              \A i \in 1..Len(flows) :
                (Persists(i) /\ flows[i].waitSub)
                  => IF ready(store')
                     THEN /\ Invoked(flows[i], flows'[i])
                          /\ flows'[i].prereq = passed(store')
                     ELSE /\ flows'[i].thenCalls = 0
                          /\ flows'[i].seen = 0
         /\ Created
              => LET g == flows'[Len(flows')]
                 IN  IF ready(store')
                     THEN g.thenCalls = 1 /\ g.prereq = passed(store')
                     ELSE g.thenCalls = 0 /\ g.waitSub]_vars

\* The operation of a flow is in flight, invoked with an empty collection,
\* the value the view holds.
C22_Witness ==
  /\ ~cfg.waitForTruthy.isArray
  /\ guard.projected = <<>>
  /\ select(store, "selectFoos") = "[]"
  /\ \E i \in 1..Len(flows) :
       /\ flows[i].op = "inflight"
       /\ flows[i].prereq = Notification(FALSE, <<"[]">>)

\* C23  The abort watcher is released once the operation begins: in every
\* state, a flow whose operation is in flight holds no subscription to
\* abort actions.
C23_AbortReleasedInFlight ==
  \A i \in 1..Len(flows) : flows[i].op = "inflight" => ~flows[i].abortSub

\* C24  No leak on abort: in the step in which the abort side wins, the
\* flow's waiter is released; from then on the flow is never changed, cfg.then
\* is not invoked and nothing more is emitted, whatever the views become.
C24_NoLeakOnAbort ==
  [][\A i \in 1..Len(flows) :
       Persists(i) =>
         /\ (~hasOutcome(flows[i], abortWith) /\ hasOutcome(flows'[i], abortWith))
              => /\ ~flows'[i].waitSub
                 /\ flows'[i].op # "inflight"
         /\ hasOutcome(flows[i], abortWith)
              => /\ ~flows[i].waitSub
                 /\ flows'[i] = flows[i]
                 /\ queue' = <<>>]_vars

\* A flow was aborted while it waited and its abort action reduced; the
\* prerequisite views have since become truthy, and cfg.then was not invoked.
C24_Witness ==
  /\ queue = <<>>
  /\ every(selected(cfg.waitForTruthy, store))
  /\ \E i \in 1..Len(flows) :
       /\ flows[i].outcomes = <<abortWith>>
       /\ flows[i].thenCalls = 0
       /\ ~flows[i].waitSub

\* C25  A triggering action that passes the guard while the earlier flow is
\* pending is dropped by exhaustMap: nothing is projected for it, and it is
\* not kept for later: a flow is subscribed only in a step that delivers a
\* triggering action while no flow is pending, never in the step in which a
\* flow ends or in one that delivers something else.
C25_IgnoredWhilePending ==
  [][/\ (TriggerDelivered /\ guard'.out # <<>> /\ innerActive(flows))
          => guard'.projected = <<>>
     /\ Created => (TriggerDelivered /\ ~innerActive(flows))]_vars

\* A triggering action has just passed the guard and was dropped, the
\* earlier flow still waiting for its prerequisites.
C25_Witness ==
  /\ guard.out # <<>>
  /\ guard.projected = <<>>
  /\ \E i \in 1..Len(flows) :
       flows[i].waitSub /\ flows[i].seen = 0 /\ ~flows[i].done

\* The number of abortWith() the flow has emitted.
aborts(f) == Len(SelectSeq(f.outcomes, LAMBDA a : a = abortWith))

\* The kinds configured in abortOn.
abortKinds == {cfg.abortOn.kinds[k] : k \in 1..Len(cfg.abortOn.kinds)}

\* C26  A flow whose abort watcher is subscribed emits abortWith() and ends
\* in the step that delivers an action of any of the kinds of abortOn (one
\* kind or a list); the delivery of an action of another kind, and every
\* other step, adds no abortWith(); and no flow ever emits abortWith() twice.
C26_AbortKinds ==
  [][\A i \in 1..Len(flows) :
       Persists(i) =>
         /\ \A kind \in ExternalKinds :
              Dispatch(kind, store')
                => IF kind \in abortKinds /\ flows[i].abortSub
                   THEN /\ flows'[i].outcomes = Append(flows[i].outcomes, abortWith)
                        /\ flows'[i].done
                        /\ ~flows'[i].abortSub
                   ELSE aborts(flows'[i]) = aborts(flows[i])
         /\ (\A kind \in ExternalKinds : ~Dispatch(kind, store'))
              => aborts(flows'[i]) = aborts(flows[i])
         /\ aborts(flows'[i]) <= 1]_vars

\* Under a list of abort kinds, a waiting flow has just emitted its one
\* abortWith(), dispatched and not yet reduced.
C26_Witness ==
  /\ cfg.abortOn.isArray
  /\ queue = <<abortWith>>
  /\ \E i \in 1..Len(flows) :
       /\ flows[i].outcomes = <<abortWith>>
       /\ flows[i].op = "idle"
       /\ ~flows[i].abortSub

\* C27  The three calling conventions: the route of a call is its first
\* argument when there are one or two arguments and its second when there
\* are four; what the call dispatched and how it ended is what the adapter
\* does for that route in each of the three conventions, and the payload
\* holds that route's parameters.
C27_CallingConventions ==
  invocation # <<>> =>
    LET r == IF Len(invocation) = 4 THEN invocation[2] ELSE invocation[1]
        one == dispatchWithParams(adapter, <<r>>)
        two == dispatchWithParams(adapter, <<r, "state">>)
        four == dispatchWithParams(adapter, <<"component", r, "state", "nextState">>)
    IN  /\ one = two
        /\ two = four
        /\ bus = one.dispatched
        /\ returned = one.result
        /\ undefinedKeys(r) = <<>>
             => /\ returned = Returned("true")
                /\ Len(bus) = 1
                /\ \A k \in keysOf(adapter) : bus[1].payload[k] = deepest(r, k)

\* A canDeactivate call (four arguments) has dispatched the action with the
\* parameters of the current route and returned true.
C27_Witness ==
  /\ Len(invocation) = 4
  /\ invocation[2].pathFromRoot = <<[id |-> "7", sectionId |-> ""]>>
  /\ adapter = <<"id", "sectionId">>
  /\ bus = <<Action("entered", [id |-> "7", sectionId |-> ""])>>
  /\ returned = Returned("true")

\* C28  cfg.then is invoked at most once per flow: once invoked, no step
\* invokes it again or changes the value it was invoked with, and no step
\* other than the delivery of an abortOn action takes the operation out of
\* flight except its own completion, whatever the views become.  The value
\* is the one the store holds in the step of the invocation (single
\* selector, and any configuration when the flow starts at subscription).
C28_InvokedOnce ==
  [][/\ \A i \in 1..Len(flows) :
          Persists(i) =>
            /\ flows'[i].thenCalls <= 1
            /\ flows[i].thenCalls = 1
                 => /\ flows'[i].thenCalls = 1
                    /\ flows'[i].prereq = flows[i].prereq
            /\ (flows[i].op = "inflight" /\ ~AbortDelivered)
                 => flows'[i].op \in {"inflight", "succeeded", "failed"}
            /\ (Invoked(flows[i], flows'[i]) /\ ~cfg.waitForTruthy.isArray)
                 => flows'[i].prereq = passed(store')
     /\ Created
          => /\ flows'[Len(flows')].thenCalls <= 1
             /\ flows'[Len(flows')].thenCalls = 1
                  => flows'[Len(flows')].prereq = passed(store')]_vars

\* The operation, invoked with "A", is in flight and the view has gone back
\* to undefined.
C28_Witness ==
  /\ ~cfg.waitForTruthy.isArray
  /\ select(store, "selectFoos") = "undefined"
  /\ \E i \in 1..Len(flows) :
       /\ flows[i].op = "inflight"
       /\ flows[i].thenCalls = 1
       /\ flows[i].prereq = Notification(FALSE, <<"A">>)

\* C29  A flow reacts only to abort actions delivered after it was
\* subscribed: a flow starts with its abort watcher subscribed and without
\* outcome, whatever was delivered before, and it emits abortWith() only in
\* a step that delivers an abortOn action while its watcher is subscribed.
C29_AbortsAfterCreation ==
  [][/\ Created
          => /\ flows'[Len(flows')].outcomes = <<>>
             /\ flows'[Len(flows')].abortSub
             /\ ~flows'[Len(flows')].done
             /\ queue' = <<>>
     /\ \A i \in 1..Len(flows) :
          (Persists(i) /\ aborts(flows'[i]) > aborts(flows[i]))
            => /\ AbortDelivered
               /\ flows[i].abortSub]_vars

\* The only flow, just subscribed under a list of abort kinds, is waiting
\* with its abort watcher subscribed and no outcome.
C29_Witness ==
  /\ guard.projected # <<>>
  /\ cfg.abortOn.isArray
  /\ Len(flows) = 1
  /\ flows[1].abortSub
  /\ flows[1].seen = 0
  /\ flows[1].outcomes = <<>>
  /\ queue = <<>>

\* C30  The guard is not evaluated again: a waiting flow whose
\* prerequisite views are all truthy after a step is notified in that step
\* and cfg.then is invoked, also when the loaded view is truthy by then.
C30_GuardNotReevaluated ==
  [][\A i \in 1..Len(flows) :
       (/\ Persists(i)
        /\ flows[i].waitSub
        /\ every(selected(cfg.waitForTruthy, store'))
        /\ isTruthy(select(store', "selectBazLoaded")))
         => /\ Invoked(flows[i], flows'[i])
            /\ flows'[i].seen = 1
            /\ ~AbortDelivered => flows'[i].op = "inflight"]_vars

\* The operation of a flow is in flight while the loaded view is true, and
\* the latest step subscribed no flow.
C30_Witness ==
  /\ guard.projected = <<>>
  /\ select(store, "selectBazLoaded") = "true"
  /\ \E i \in 1..Len(flows) :
       /\ flows[i].op = "inflight"
       /\ flows[i].seen = 1
       /\ ~flows[i].done

\* C31  Failure atomicity of the dispatcher: a call in which some key of the
\* adapter is defined by no level of the route ends by throwing and, whether
\* or not the keys before the missing one resolved, the action creator is not
\* called and no action is dispatched: the actions dispatched, the creator's
\* calls and the State Container are as they were before the call.
C31_FailureAtomic ==
  [][(invocation = <<>> /\ invocation' # <<>>
        /\ undefinedKeys(routeOf(invocation')) # <<>>)
       => /\ returned'.kind = "threw"
          /\ bus' = bus
          /\ factory' = factory
          /\ store' = store
          /\ flows' = flows
          /\ queue' = queue]_vars

\* A resolver call whose first key, sectionId, resolves (from the parent of
\* the leaf) and whose second key, id, does not, has thrown without creating
\* or dispatching an action.
C31_Witness ==
  /\ Len(invocation) = 1
  /\ adapter = <<"sectionId", "id">>
  /\ LET path == routeOf(invocation).pathFromRoot
     IN  /\ Len(path) = 2
         /\ path[1] = [id |-> "null", sectionId |-> "7"]
         /\ path[2] = [id |-> "null", sectionId |-> "null"]
  /\ returned = Threw("id")
  /\ factory = <<>>
  /\ bus = <<>>

\* C32  Local state of the sidebar: the view model's isExpanded is true when
\* the component is created; each toggleExpanded() negates it and leaves the
\* search text as it was; setSearch(text) makes the view model's searchText
\* equal to text and leaves isExpanded as it was; neither call dispatches an
\* action or changes the state of the feature.
C32_LocalState ==
  /\ vm.isExpanded = Bool(TRUE)
  /\ [][(called' = <<"toggleExpanded">>
            => (/\ vm'.isExpanded = Bool(~vm.isExpanded.val)
                /\ vm'.searchText = vm.searchText
                /\ searchTextS' = searchTextS
                /\ dispatched' = <<>>
                /\ fooState' = fooState))
         /\ (\A text \in Texts :
               called' = <<"setSearch", text>>
                 => (/\ vm'.searchText = text
                     /\ vm'.isExpanded = vm.isExpanded
                     /\ expandedS' = expandedS
                     /\ dispatched' = <<>>
                     /\ fooState' = fooState))]_vars

\* The sidebar was collapsed by toggleExpanded() after a search for "t" had
\* been set: the search text is still "t".
C32_Witness ==
  /\ called = <<"toggleExpanded">>
  /\ vm.isExpanded = Bool(FALSE)
  /\ vm.searchText = String(<<"t">>)

\* C36  Domain intents of the sidebar: select(id) dispatches exactly one
\* action, FooActions.selected with that id, and textInputChange(text)
\* dispatches exactly one action, FooActions.updateFooInput with that text;
\* neither call changes the component's local state (search text, expanded).
C36_DomainIntents ==
  [][(\A id \in Ids :
        called' = <<"select", id>>
          => (/\ Len(dispatched') = 1
              /\ dispatched'[1].kind = "[Foo] Selected"
              /\ dispatched'[1].payload = [id |-> id]
              /\ searchTextS' = searchTextS
              /\ expandedS' = expandedS))
     /\ (\A text \in Texts :
           called' = <<"textInputChange", text>>
             => (/\ Len(dispatched') = 1
                 /\ dispatched'[1].kind = "[Foo] Update foo input"
                 /\ dispatched'[1].payload = [text |-> text]
                 /\ searchTextS' = searchTextS
                 /\ expandedS' = expandedS))]_vars

\* select('1') was called on a collapsed sidebar with the search text "t":
\* one Selected action with id '1' is dispatched and the local state is as
\* it was set.
C36_Witness ==
  /\ called = <<"select", String(<<"1">>)>>
  /\ dispatched = <<FooActions_selected(String(<<"1">>))>>
  /\ searchTextS = String(<<"t">>)
  /\ expandedS = Bool(FALSE)

\* C38  The reducer of the feature changes only inputText and only on
\* 'Update foo input', to the action's text; every other action of FooActions
\* leaves the state as it is, so that in every reachable state foos = [],
\* selectedId = null, loading = false and error = null.
C38_OnlyInputText ==
  /\ [](/\ fooState.foos = Array(<<>>)
        /\ fooState.selectedId = null
        /\ fooState.loading = Bool(FALSE)
        /\ fooState.error = null)
  /\ [][/\ [fooState' EXCEPT !.inputText = fooState.inputText] = fooState
        /\ (\A action \in FooActions :
              called' = <<"dispatch", action>>
                => (fooState' =
                      IF action.kind = "[Foo] Update foo input"
                      THEN [fooState EXCEPT !.inputText = action.payload.text]
                      ELSE fooState))
        /\ (fooState'.inputText # fooState.inputText
              => \/ called' = <<"textInputChange", fooState'.inputText>>
                 \/ called' = <<"dispatch",
                                FooActions_updateFooInput(fooState'.inputText)>>)]_vars

\* 'Load Success' with one foo was dispatched to the Store after the input
\* text had been set to "t": the state still has no foos and the text "t".
C38_Witness ==
  /\ Len(called) = 2
  /\ called[1] = "dispatch"
  /\ called[2].kind = "[Foo] Load Success"
  /\ Len(called[2].payload.foos.elems) = 1
  /\ fooState.foos = Array(<<>>)
  /\ fooState.inputText = String(<<"t">>)

\* The items of its whose name contains text, case-insensitively, in order.
nameMatches(its, text) ==
  SelectSeq(its, LAMBDA item : includes(toLowerCase(item.name), toLowerCase(text)))

\* C33  filteredItems is exactly the sub-list of items, in order, whose name
\* contains the search text case-insensitively: an item that matches only in
\* its description is not included, and the empty search text yields all
\* items.
C33_NameOnly ==
  /\ vm.filteredItems = nameMatches(vm.items, vm.searchText)
  /\ (vm.searchText = String(<<>>) => vm.filteredItems = vm.items)

\* C34  An item is selected exactly when its id equals the selectedId of the
\* store: with selectedId null no item is selected, and after selectedId has
\* changed from a to b the items with id a are not selected and those with
\* id b are.
C34_Selection ==
  /\ [](\A i \in 1..Len(vm.items) :
          vm.items[i].isSelected <=> vm.items[i].id = fooState.selectedId)
  /\ [](fooState.selectedId = null
          => \A i \in 1..Len(vm.items) : ~vm.items[i].isSelected)
  /\ [][\A a, b \in Ids :
          (a # b /\ fooState.selectedId = a
             /\ called' = <<"overrideSelector", b>>)
            => \A i \in 1..Len(vm'.items) :
                 /\ (vm'.items[i].id = a => ~vm'.items[i].isSelected)
                 /\ (vm'.items[i].id = b => vm'.items[i].isSelected)]_vars

\* The selector was overridden with '2' over the foos '1' and '2': the first
\* item is not selected, the second is.
C34_Witness ==
  /\ called = <<"overrideSelector", String(<<"2">>)>>
  /\ Len(vm.items) = 2
  /\ vm.items[1].id = String(<<"1">>)
  /\ ~vm.items[1].isSelected
  /\ vm.items[2].id = String(<<"2">>)
  /\ vm.items[2].isSelected

\* sub is a sub-list of seq: its elements occur in seq in the same order.
RECURSIVE isSubList(_, _)
isSubList(sub, seq) ==
  IF Len(sub) = 0 THEN TRUE
  ELSE IF Len(seq) = 0 THEN FALSE
  ELSE IF Head(sub) = Head(seq) THEN isSubList(Tail(sub), Tail(seq))
  ELSE isSubList(sub, Tail(seq))

\* C35  hasResults is true exactly when filteredItems is not empty;
\* filteredItems is a sub-list of items; over an empty list of foos items
\* and filteredItems are empty and hasResults is false.
C35_HasResults ==
  /\ vm.hasResults <=> Len(vm.filteredItems) > 0
  /\ isSubList(vm.filteredItems, vm.items)
  /\ (fooState.foos = Array(<<>>)
        => (/\ Len(vm.items) = 0
            /\ Len(vm.filteredItems) = 0
            /\ ~vm.hasResults))

\* There are foos and the search text matches none of them: items is not
\* empty, filteredItems is, and hasResults is false.
C35_Witness ==
  /\ called = <<"setSearch", String(<<"t">>)>>
  /\ Len(vm.items) = 2
  /\ Len(vm.filteredItems) = 0
  /\ ~vm.hasResults

\* C37  mapToFooSidebarVM has a result for every input, with defaults for
\* what is missing: a missing list of foos gives items = [], a missing search
\* text gives searchText = '' (which matches every item), a missing input
\* text gives textInputValue = '', a missing description gives ''.
C37_SafeDefaults ==
  /\ (fooState.foos \in {undefined, null} => Len(vm.items) = 0)
  /\ (searchTextS \in {undefined, null}
        => (vm.searchText = String(<<>>) /\ vm.filteredItems = vm.items))
  /\ (fooState.inputText = undefined => vm.textInputValue = String(<<>>))
  /\ (fooState.foos.type = "array"
        => (/\ Len(vm.items) = Len(fooState.foos.elems)
            /\ \A i \in 1..Len(vm.items) :
                 /\ vm.items[i].description.type = "string"
                 /\ (fooState.foos.elems[i].description = undefined
                       => vm.items[i].description = String(<<>>))))
  /\ vm.isExpanded.type = "boolean"
  /\ (expandedS = undefined => vm.isExpanded = Bool(TRUE))

\* The view model, evaluated again after a selector was overridden, of a
\* store with one foo that has no description and with no input text, under
\* a search text and an expanded flag that were left out.
C37_Witness ==
  /\ called = <<"overrideSelector", null>>
  /\ searchTextS = undefined
  /\ expandedS = undefined
  /\ fooState.inputText = undefined
  /\ fooState.foos.type = "array"
  /\ Len(fooState.foos.elems) = 1
  /\ fooState.foos.elems[1].description = undefined
  /\ vm.items[1].description = String(<<>>)
  /\ Len(vm.filteredItems) = 1
  /\ vm.textInputValue = String(<<>>)

====
